---- MODULE Spec2Model ----
(***************************************************************************)
(* Model of scrape.py (AI-Quinas): the Summa Theologiae scraper.           *)
(* One sequential pipeline: open the output file, write title/subtitle,    *)
(* optionally the prologue, then for every question of the range fetch the *)
(* question page, resolve the article count and fetch every article under  *)
(* a bounded retry loop.  Durations are in milliseconds; random.random()   *)
(* is a draw r/1000 with r in RandomValues.                                *)
(***************************************************************************)
EXTENDS Integers, Sequences, FiniteSets, TLC

VARIABLES
    part, start_q, end_q, delay,          \* parameters of scrape_summa
    url_part, part_title, part_subtitle,  \* resolved configuration
    pc,                                   \* position in scrape_summa
    f_open,                               \* the with-block holds the file open
    doc,                                  \* content of the output file
    q_num, num_articles, article_nums,    \* question loop
    article_num, retry_count, article_retrieved,   \* article loop
    slept,                                \* ms slept since the last response
    lastFetch,                            \* the last GET and its outcome
    attempts, firstOK,                    \* GETs of the current article, first 200
    body,                                 \* body fragments of the last extraction
    server, run, prevDoc,                 \* stubbed server, run number, previous file
    end_arg,                              \* the end_q argument as passed
    page_in                               \* the article page given to the extractor

vars == << part, start_q, end_q, delay, url_part, part_title, part_subtitle,
           pc, f_open, doc, q_num, num_articles, article_nums, article_num,
           retry_count, article_retrieved, slept, lastFetch, attempts,
           firstOK, body, server, run, prevDoc, end_arg, page_in >>

----------------------------------------------------------------------------
(* Bounds *)

MaxFrags == 2       \* fragments per extractor input list

RandomValues == {0, 999}          \* random.random() in thousandths
Delays == {0, 1000}               \* the delay parameter, ms
Spans == {0, 1}                   \* end_q - start_q
DetectedSets == {{0}, {1, 2}}     \* article numbers found in a question page

----------------------------------------------------------------------------
(* Configuration resolver, lines 8-68 *)

None == 0
max_retries == 7

ValidParts == {"I", "II-I", "II-II", "III"}
Parts == ValidParts \cup {"IV"}

\* variant: the fallback of line 16 taken from Prima Secundae
get_default_end_question_114(p) ==
    CASE p = "I" -> 119
      [] p = "II-I" -> 114
      [] p = "II-II" -> 189
      [] p = "III" -> 90
      [] OTHER -> 114

get_default_end_question(p) ==
    CASE p = "I" -> 119
      [] p = "II-I" -> 114
      [] p = "II-II" -> 189
      [] p = "III" -> 90
      [] OTHER -> 119

\* variant: the table of lines 20-33 left empty
get_article_count_none(p, q) == None

get_article_count(p, q) ==
    CASE p = "I" /\ q = 119 -> 2
      [] p = "II-I" /\ q = 114 -> 10
      [] p = "II-II" /\ q = 189 -> 10
      [] p = "III" /\ q = 90 -> 4
      [] OTHER -> None

get_part_url_format(p) ==
    CASE p = "I" -> "I"
      [] p = "II-I" -> "I-II"
      [] p = "II-II" -> "II-II"
      [] p = "III" -> "III"
      [] OTHER -> p

get_part_title(p) ==
    CASE p = "I" -> "FIRST PART"
      [] p = "II-I" -> "FIRST PART OF THE SECOND PART"
      [] p = "II-II" -> "SECOND PART OF THE SECOND PART"
      [] p = "III" -> "THIRD PART"
      [] OTHER -> "PART " \o p

get_part_subtitle(p) ==
    CASE p = "I" -> "SACRED DOCTRINE"
      [] p = "II-I" -> "MAN'S LAST END"
      [] p = "II-II" -> "FAITH, HOPE, AND CHARITY"
      [] p = "III" -> "THE INCARNATION"
      [] OTHER -> ""

----------------------------------------------------------------------------
(* Texts.  A text is its identity, its stripped length and whether it      *)
(* starts with "Article <current article number>".                         *)

Txt(i, n, h) == [id |-> i, len |-> n, hdr |-> h]

ElemTexts == { Txt("", 0, FALSE), Txt("s14", 14, FALSE), Txt("m15", 15, FALSE),
               Txt("p21", 21, FALSE), Txt("hdr", 16, TRUE) }
ParaTexts == { Txt("", 0, FALSE), Txt("p20", 20, FALSE), Txt("p21", 21, FALSE) }
LineTexts == { Txt("", 0, FALSE), Txt("l50", 50, FALSE), Txt("l51", 51, FALSE) }

Classes == {"t-s", "t-h", "t-o", "p"}
Elems == [cls : Classes, text : ElemTexts]

SeqsUpTo(S, n) == UNION { [1..k -> S] : k \in 0..n }

Range(s) == { s[i] : i \in 1..Len(s) }

NoTitle == [found |-> FALSE, text |-> Txt("", 0, FALSE)]

\* soup.find("vl-c", class_ contains c): the first element of class c
RECURSIVE FindClass(_, _, _)
FindClass(elems, c, i) ==
    IF i > Len(elems) THEN 0
    ELSE IF elems[i].cls = c THEN i
    ELSE FindClass(elems, c, i + 1)

\* lines 301-314: article_title, None when no usable title element
ArticleTitle(elems) ==
    LET s == FindClass(elems, "t-s", 1)
        h == FindClass(elems, "t-h", 1)
        o == FindClass(elems, "t-o", 1)
    IN  IF s # 0 THEN [found |-> TRUE, text |-> elems[s].text]
        ELSE IF h # 0 /\ elems[h].text.len > 0
             THEN [found |-> TRUE, text |-> elems[h].text]
        ELSE IF o # 0 /\ elems[o].text.len > 0
             THEN [found |-> TRUE, text |-> elems[o].text]
        ELSE NoTitle

MinLen == 15

\* variant: line 325 without the processed_texts test
RECURSIVE Stage1NoDedup(_, _, _, _)
Stage1NoDedup(elems, title, i, out) ==
    IF i > Len(elems) THEN out
    ELSE LET text == elems[i].text IN
         IF text.len = 0 \/ text.len < MinLen
         THEN Stage1NoDedup(elems, title, i + 1, out)
         ELSE IF (title.found /\ title.text.len > 0 /\ text = title.text) \/ text.hdr
         THEN Stage1NoDedup(elems, title, i + 1, out)
         ELSE Stage1NoDedup(elems, title, i + 1, Append(out, text))

\* lines 323-334: the primary pass over the content elements
RECURSIVE Stage1(_, _, _, _)
Stage1(elems, title, i, out) ==
    IF i > Len(elems) THEN out
    ELSE LET text == elems[i].text IN
         IF text.len = 0 \/ text.len < MinLen \/ text \in Range(out)
         THEN Stage1(elems, title, i + 1, out)
         ELSE IF (title.found /\ title.text.len > 0 /\ text = title.text) \/ text.hdr
         THEN Stage1(elems, title, i + 1, out)
         ELSE Stage1(elems, title, i + 1, Append(out, text))

\* lines 341-346: paragraphs of div.body div.content
RECURSIVE Stage2(_, _, _)
Stage2(paras, i, out) ==
    IF i > Len(paras) THEN out
    ELSE LET text == paras[i] IN
         IF text.len > 0 /\ text.len > 20 /\ text \notin Range(out)
         THEN Stage2(paras, i + 1, Append(out, text))
         ELSE Stage2(paras, i + 1, out)

\* lines 350-357: long lines of the whole page text
RECURSIVE Stage3(_, _, _)
Stage3(lines, i, out) ==
    IF i > Len(lines) THEN out
    ELSE LET line == lines[i] IN
         IF line.len > 0 /\ line.len > 50 /\ line \notin Range(out)
         THEN Stage3(lines, i + 1, Append(out, line))
         ELSE Stage3(lines, i + 1, out)

\* lines 316-357: the body fragments written for one article page
ExtractBody(page) ==
    LET s1 == Stage1(page.elems, ArticleTitle(page.elems), 1, << >>)
        s2 == Stage2(page.paras, 1, s1)
        s3 == Stage3(page.lines, 1, s2)
    IN  IF Len(s1) # 0 THEN s1
        ELSE IF Len(s2) # 0 THEN s2
        ELSE s3

----------------------------------------------------------------------------
(* Pages served by the stubbed site *)

Page(e, p, l) == [elems |-> e, paras |-> p, lines |-> l]
El(c, t) == [cls |-> c, text |-> t]

NoPage == Page(<< >>, << >>, << >>)

\* title element, a paragraph, the same paragraph again, a short fragment
NominalPage ==
    Page(<< El("t-s", Txt("m15", 15, FALSE)), El("p", Txt("p21", 21, FALSE)),
            El("p", Txt("p21", 21, FALSE)), El("p", Txt("s14", 14, FALSE)) >>,
         << >>, << >>)

\* nothing under the primary selector: only the header and a short fragment
FallbackPage ==
    Page(<< El("p", Txt("hdr", 16, TRUE)), El("p", Txt("s14", 14, FALSE)) >>,
         << Txt("p20", 20, FALSE) >>,
         << Txt("l50", 50, FALSE), Txt("l51", 51, FALSE), Txt("l51", 51, FALSE) >>)

SamplePages == {NominalPage, FallbackPage}

\* a fragment of a question page, with the cues lines 179-198 test
QFrag(i, n, a, inq, num, sa) ==
    [id |-> i, len |-> n, article |-> a, inquir |-> inq, numbered |-> num,
     startsArticle |-> sa]

QPage(t, f) == [title |-> t, frags |-> f]

NominalQPage ==
    QPage("qtitle",
          << QFrag("qtitle", 12, FALSE, FALSE, FALSE, FALSE),
             QFrag("qdesc", 40, FALSE, FALSE, FALSE, FALSE),
             QFrag("Article 1", 9, TRUE, FALSE, FALSE, TRUE),
             QFrag("qinq", 45, FALSE, TRUE, FALSE, FALSE),
             QFrag("(1) item", 33, FALSE, FALSE, TRUE, FALSE),
             QFrag("qafter", 60, FALSE, FALSE, FALSE, FALSE) >>)

BareQPage == QPage("", << >>)

\* a fragment of the part page, with the cues lines 124-126 test
PFrag(i, n, q1, pt, st) == [id |-> i, len |-> n, q1 |-> q1, part |-> pt, st |-> st]

ProloguePages ==
    { << >>,
      << PFrag("FIRST PART", 10, FALSE, TRUE, FALSE),
         PFrag("prologue", 80, FALSE, FALSE, FALSE),
         PFrag("Question 1", 10, TRUE, FALSE, FALSE),
         PFrag("later", 80, FALSE, FALSE, FALSE) >> }

----------------------------------------------------------------------------
(* The output document: a sequence of lines.  q and m name the unit that   *)
(* was being processed when the line was written (0 for none).             *)

Line(k, q, m, t) == [k |-> k, q |-> q, m |-> m, t |-> t]

RECURSIVE TextLines(_, _, _, _)
TextLines(k, q, m, ts) ==
    IF ts = << >> THEN << >>
    ELSE << Line(k, q, m, Head(ts).id) >> \o TextLines(k, q, m, Tail(ts))

\* lines 122-127: prologue paragraphs before the first question
RECURSIVE PrologueContent(_, _)
PrologueContent(frags, i) ==
    IF i > Len(frags) THEN << >>
    ELSE IF frags[i].q1 THEN << >>
    ELSE IF frags[i].len > 0 /\ frags[i].len > 20 /\ ~frags[i].part /\ ~frags[i].st
         THEN << frags[i] >> \o PrologueContent(frags, i + 1)
         ELSE PrologueContent(frags, i + 1)

\* lines 130-133
PrologueBlock(frags) ==
    LET c == PrologueContent(frags, 1)
    IN  IF c = << >> THEN << >>
        ELSE << Line("PROLOGUE", 0, 0, "") >> \o TextLines("para", 0, 0, c)

\* lines 177-198: classification of the question page's fragments;
\* st = [desc, header, items]
RECURSIVE Classify(_, _, _)
Classify(frags, i, st) ==
    IF i > Len(frags) THEN st
    ELSE LET x == frags[i] IN
         IF x.len = 0 THEN Classify(frags, i + 1, st)
         ELSE IF x.article /\ x.len < 30 THEN Classify(frags, i + 1, st)
         ELSE IF x.inquir /\ st.header = << >>
              THEN Classify(frags, i + 1, [st EXCEPT !.header = << x >>])
         ELSE IF st.header # << >> /\ x.numbered
              THEN Classify(frags, i + 1, [st EXCEPT !.items = Append(@, x)])
         ELSE IF st.header = << >> /\ x.len > 30 /\ ~x.startsArticle
              THEN Classify(frags, i + 1, [st EXCEPT !.desc = Append(@, x)])
         ELSE Classify(frags, i + 1, st)

\* lines 162-209: what is written for a question page
QuestionBlock(q, qp) ==
    LET c == Classify(qp.frags, 1, [desc |-> << >>, header |-> << >>, items |-> << >>])
    IN  << Line("Question", q, 0, "") >>
        \o (IF qp.title # "" THEN << Line("qtitle", q, 0, qp.title) >> ELSE << >>)
        \o TextLines("para", q, 0, c.desc)
        \o (IF c.header # << >>
            THEN TextLines("inquiry", q, 0, c.header) \o TextLines("item", q, 0, c.items)
                 \o << Line("blank", q, 0, "") >>
            ELSE << >>)

\* lines 299-357: what is written for an article page
ArticleBlock(q, m, page) ==
    LET t == ArticleTitle(page.elems)
    IN  << Line("Article", q, m, "") >>
        \o (IF t.found THEN << Line("atitle", q, m, t.text.id) >> ELSE << >>)
        \o TextLines("text", q, m, ExtractBody(page))

SetMax(S) == CHOOSE x \in S : \A y \in S : y <= x

\* lines 213-266: the number of articles of question q
ResolveArticleCount(p, q, last, nums) ==
    LET known == get_article_count(p, q)
        n == IF known # None THEN known
             ELSE IF nums # {} THEN SetMax(nums)
             ELSE IF q = last THEN 10
             ELSE 4
    IN  IF q = last /\ p = "II-II" /\ q = 189 THEN 10
        ELSE IF q = last /\ p = "III" /\ q = 90 THEN 4
        ELSE n

----------------------------------------------------------------------------
(* Sleeps, ms.  r is random.random() in thousandths. *)

\* variant: no pause before a repeated GET
PreDelayNone(r) == 0
PreDelay(r) == 1000 + r * 2             \* line 290
Sleep429(r) == 5000 + r * 5             \* line 363
SleepOther(r) == 2000 + r * 3           \* lines 368, 373
Jitter(d, r) == (d * (800 + (400 * r) \div 1000)) \div 1000   \* lines 383, 396

----------------------------------------------------------------------------
(* The remote site.  A response is the classified outcome of one GET, the  *)
(* page on a 200 and the point where handling that page raises, if any.    *)

Outcomes == {"200", "429", "other", "exc"}
Failures == Outcomes \ {"200"}

Resp(o, pg, x) == [outcome |-> o, page |-> pg, exc |-> x]
QResp(o, qp, nums, x) == [outcome |-> o, qpage |-> qp, nums |-> nums, exc |-> x]

NominalResp == Resp("200", NominalPage, "none")

\* a stubbed site: the part page answers pro; question number qfail of the
\* run answers kind; article bad answers kind until attempt okAt and then a
\* page whose handling raises at exc; nums are the article numbers found
Scenarios ==
    [ mode : {"stub"}, pro : {"200", "other"}, qfail : {0, 2},
      nums : {{}, {1, 2}}, bad : {<< 1, 2 >>}, okAt : {1, 3, 8},
      kind : {"429", "exc"}, exc : {"none", "extract"} ]

\* the live site: any response to any GET
AnySite ==
    [ mode |-> "any", pro |-> "200", qfail |-> 0, nums |-> {}, bad |-> << 0, 0 >>,
      okAt |-> 1, kind |-> "429", exc |-> "none" ]

\* the responses the site may give to the n-th GET of article m of question q
ArticleResponses(q, m, n) ==
    IF server.mode = "any"
    THEN { Resp(o, NoPage, "none") : o \in Failures }
         \cup { Resp("200", pg, "none") : pg \in SamplePages }
         \cup { Resp("200", NominalPage, x) : x \in {"parse", "extract"} }
    ELSE IF << q - start_q + 1, m >> = server.bad
         THEN IF n < server.okAt
              THEN { Resp(server.kind, NoPage, "none") }
              ELSE { Resp("200", FallbackPage, server.exc) }
         ELSE { NominalResp }

\* the responses the site may give to the GET of question q
QuestionResponses(q) ==
    IF server.mode = "any"
    THEN { QResp(o, BareQPage, {}, "none") : o \in Failures }
         \cup { QResp("200", NominalQPage, nums, "none") : nums \in DetectedSets }
         \cup { QResp("200", BareQPage, {}, x) : x \in {"parse", "detect"} }
    ELSE IF q - start_q + 1 = server.qfail
         THEN { QResp(server.kind, BareQPage, {}, "none") }
         ELSE { QResp("200", NominalQPage, server.nums, "none") }

\* the responses the site may give to the GET of the part page
PrologueResponses ==
    IF server.mode = "any"
    THEN { [outcome |-> o, frags |-> << >>] : o \in Failures }
         \cup { [outcome |-> "200", frags |-> f] : f \in ProloguePages }
    ELSE { [outcome |-> server.pro,
            frags |-> CHOOSE f \in ProloguePages : f # << >>] }

Fetch(k, q, m, o, n) == [kind |-> k, q |-> q, m |-> m, outcome |-> o, n |-> n]
NoFetch == Fetch("none", 0, 0, "none", 0)

----------------------------------------------------------------------------
(* scrape_summa *)

\* start_q: the first question, or offs questions before the part's last
StartQs(p, offs) == {1} \cup { get_default_end_question(p) - o : o \in offs }

EndArgs(p, s) ==
    { s + d : d \in Spans }
    \cup (IF get_default_end_question(p) - s \in Spans THEN {None} ELSE {})

InitCommon(ps, offs) ==
    /\ part \in ps
    /\ start_q \in StartQs(part, offs)
    /\ end_arg \in EndArgs(part, start_q)
    /\ delay \in Delays
    /\ end_q = end_arg
    /\ url_part = "" /\ part_title = "" /\ part_subtitle = ""
    /\ pc = "start"
    /\ f_open = FALSE
    /\ doc = << >>
    /\ q_num = 0 /\ num_articles = 0 /\ article_nums = {}
    /\ article_num = 0 /\ retry_count = 0 /\ article_retrieved = FALSE
    /\ slept = 0 /\ lastFetch = NoFetch
    /\ attempts = 0 /\ firstOK = 0
    /\ body = << >>
    /\ run = 1 /\ prevDoc = << >>
    /\ page_in = NoPage

SpecParts == {"I"}

Init == InitCommon(SpecParts, {1}) /\ server = AnySite

\* variant: the file opened with "a"
OpenFileAppend(old) == old

\* line 102: open(output_file, "w") truncates the file
OpenFile(old) == << >>

\* variant: the lines put in front of the file's content
WritePrepend(d, ls) == ls \o d

\* f.write: the lines go to the end of the file
Write(d, ls) == d \o ls

\* variant: line 379 dropped
ArticlePlaceholderNone(q, m) == << >>

\* line 379
ArticlePlaceholder(q, m) == << Line("*Article", q, m, "") >>

\* lines 388 and 392
QuestionPlaceholder(q, o) ==
    << Line(IF o \in {"429", "other"} THEN "*Question" ELSE "*QuestionError",
            q, 0, "") >>

\* lines 82-138: resolve the configuration, open the file, write title,
\* subtitle and (for start_q = 1) the prologue
Begin ==
    /\ pc = "start"
    /\ \E r \in (IF start_q = 1 THEN PrologueResponses ELSE {[outcome |-> "none", frags |-> << >>]}) :
        LET last == IF end_q = None THEN get_default_end_question(part) ELSE end_q
            head == << Line("SUMMA THEOLOGIAE", 0, 0, get_part_title(part)),
                       Line("subtitle", 0, 0, get_part_subtitle(part)) >>
            pro == IF r.outcome = "200" THEN PrologueBlock(r.frags) ELSE << >>
        IN  /\ end_q' = last
            /\ url_part' = get_part_url_format(part)
            /\ part_title' = get_part_title(part)
            /\ part_subtitle' = get_part_subtitle(part)
            /\ f_open' = TRUE
            /\ doc' = Write(Write(OpenFile(doc), head), pro)
            /\ lastFetch' = IF start_q = 1 THEN Fetch("prologue", 0, 0, r.outcome, 1)
                            ELSE lastFetch
            /\ slept' = 0
            /\ q_num' = start_q
            /\ pc' = IF start_q <= last THEN "question" ELSE "finish"
    /\ UNCHANGED << part, start_q, delay, num_articles, article_nums, article_num,
                    retry_count, article_retrieved, attempts, firstOK,
                    body, server, run, prevDoc, end_arg, page_in >>

\* lines 394-397 and the loop header of line 140: throttle, next question
\* (s is the time slept so far since the last response)
AfterQuestion(s, r) ==
    /\ slept' = IF delay > 0 THEN s + Jitter(delay, r) ELSE s
    /\ q_num' = q_num + 1
    /\ pc' = IF q_num + 1 <= end_q THEN "question" ELSE "finish"

JitterDraws == IF delay > 0 THEN RandomValues ELSE {0}

\* lines 140-269 and 385-397: one question page: GET, write the question
\* block, resolve the article count; or write the placeholder and move on
FetchQuestion ==
    /\ pc = "question"
    /\ \E r \in QuestionResponses(q_num), j \in JitterDraws :
        /\ lastFetch' = Fetch("question", q_num, 0, r.outcome, 1)
        /\ retry_count' = 0 /\ article_retrieved' = FALSE
        /\ attempts' = 0 /\ firstOK' = 0
        /\ IF r.outcome = "200" /\ r.exc = "none"
           THEN LET n == ResolveArticleCount(part, q_num, end_q, r.nums)
                IN  /\ doc' = Write(doc, QuestionBlock(q_num, r.qpage))
                    /\ article_nums' = r.nums
                    /\ num_articles' = n
                    /\ IF n >= 1
                       THEN /\ article_num' = 1
                            /\ pc' = "article"
                            /\ slept' = 0
                            /\ q_num' = q_num
                       ELSE /\ article_num' = 0
                            /\ AfterQuestion(0, j)
           ELSE /\ doc' = Write(Write(doc, IF r.outcome = "200" /\ r.exc = "detect"
                                           THEN QuestionBlock(q_num, r.qpage)
                                           ELSE << >>),
                                QuestionPlaceholder(q_num, r.outcome))
                /\ article_nums' = {}
                /\ num_articles' = 0
                /\ article_num' = 0
                /\ AfterQuestion(0, j)
    /\ UNCHANGED << part, start_q, end_q, delay, url_part, part_title,
                    part_subtitle, f_open, body, server, run, prevDoc, end_arg,
                    page_in >>

\* variant: the loop without its bound
RetryingForever == ~article_retrieved

\* variant: <= in place of < at line 279
RetryingOneMore == ~article_retrieved /\ retry_count <= max_retries

\* variant: the loop gives up after three failures
RetryingGivesUp == ~article_retrieved /\ retry_count < 3

\* line 279: the condition of the retry loop
Retrying == ~article_retrieved /\ retry_count < max_retries

\* lines 288-290: the pause before a repeated GET
RetryDelay ==
    /\ pc = "article"
    /\ Retrying
    /\ retry_count > 0
    /\ \E r \in RandomValues : slept' = slept + PreDelay(r)
    /\ pc' = "get"
    /\ UNCHANGED << part, start_q, end_q, delay, url_part, part_title,
                    part_subtitle, f_open, doc, q_num, num_articles, article_nums,
                    article_num, retry_count, article_retrieved, lastFetch,
                    attempts, firstOK, body, server, run, prevDoc, end_arg,
                    page_in >>

\* lines 292-373: GET of the current article and the handling of its outcome
ArticleGet ==
    /\ \/ pc = "get"
       \/ pc = "article" /\ Retrying /\ retry_count = 0
    /\ \E r \in ArticleResponses(q_num, article_num, attempts + 1),
          r2 \in RandomValues :
        LET raised == r.outcome = "exc" \/ (r.outcome = "200" /\ r.exc # "none")
        IN  /\ lastFetch' = Fetch("article", q_num, article_num, r.outcome, attempts + 1)
            /\ attempts' = attempts + 1
            /\ article_retrieved' = (r.outcome = "200")
            /\ firstOK' = IF r.outcome = "200" THEN attempts + 1 ELSE firstOK
            /\ retry_count' = IF r.outcome # "200" \/ raised
                              THEN retry_count + 1 ELSE retry_count
            /\ slept' = IF r.outcome = "429" THEN Sleep429(r2)
                        ELSE IF r.outcome = "other" \/ raised THEN SleepOther(r2)
                        ELSE 0
            /\ doc' = IF r.outcome # "200" \/ r.exc = "parse" THEN doc
                      ELSE IF r.exc = "extract"
                           THEN Write(doc, << Line("Article", q_num, article_num, "") >>)
                      ELSE Write(doc, ArticleBlock(q_num, article_num, r.page))
            /\ body' = IF r.outcome = "200" /\ r.exc = "none"
                       THEN ExtractBody(r.page) ELSE body
    /\ pc' = "article"
    /\ UNCHANGED << part, start_q, end_q, delay, url_part, part_title,
                    part_subtitle, f_open, q_num, num_articles, article_nums,
                    article_num, server, run, prevDoc, end_arg, page_in >>

\* lines 375-384 and the loop header of line 269: placeholder for an article
\* that was not retrieved, throttle, next article or end of the question
ArticleFinish ==
    /\ pc = "article"
    /\ ~Retrying
    /\ \E j1 \in JitterDraws, j2 \in JitterDraws :
        LET s == IF delay > 0 THEN slept + Jitter(delay, j1) ELSE slept
        IN  /\ doc' = IF ~article_retrieved
                      THEN Write(doc, ArticlePlaceholder(q_num, article_num))
                      ELSE doc
            /\ IF article_num < num_articles
               THEN /\ article_num' = article_num + 1
                    /\ slept' = s
                    /\ UNCHANGED << pc, q_num >>
               ELSE /\ article_num' = article_num
                    /\ AfterQuestion(s, j2)
    /\ retry_count' = 0 /\ article_retrieved' = FALSE
    /\ attempts' = 0 /\ firstOK' = 0
    /\ UNCHANGED << part, start_q, end_q, delay, url_part, part_title,
                    part_subtitle, f_open, num_articles, article_nums, lastFetch,
                    body, server, run, prevDoc, end_arg, page_in >>

\* line 399 and the end of the with-block of line 102
Close ==
    /\ pc = "finish"
    /\ f_open' = FALSE
    /\ pc' = "done"
    /\ UNCHANGED << part, start_q, end_q, delay, url_part, part_title,
                    part_subtitle, doc, q_num, num_articles, article_nums,
                    article_num, retry_count, article_retrieved, slept,
                    lastFetch, attempts, firstOK, body, server, run,
                    prevDoc, end_arg, page_in >>

Next == Begin \/ FetchQuestion \/ RetryDelay \/ ArticleGet \/ ArticleFinish \/ Close

Spec == Init /\ [][Next]_vars

----------------------------------------------------------------------------
(* A second call of scrape_summa with the same arguments on the same       *)
(* output path against a stubbed site                                      *)

InitStub == InitCommon(Parts, {0, 1}) /\ server \in Scenarios

\* line 434 called again: the locals are fresh, the file is still on disk
Rerun ==
    /\ pc = "done"
    /\ run = 1
    /\ run' = 2
    /\ prevDoc' = doc
    /\ pc' = "start"
    /\ end_q' = end_arg
    /\ url_part' = "" /\ part_title' = "" /\ part_subtitle' = ""
    /\ q_num' = 0 /\ num_articles' = 0 /\ article_nums' = {}
    /\ article_num' = 0 /\ retry_count' = 0 /\ article_retrieved' = FALSE
    /\ slept' = 0 /\ lastFetch' = NoFetch
    /\ attempts' = 0 /\ firstOK' = 0
    /\ body' = << >>
    /\ UNCHANGED << part, start_q, delay, f_open, doc, server, end_arg, page_in >>

NextStub == Next \/ Rerun

SpecStub == InitStub /\ [][NextStub]_vars

----------------------------------------------------------------------------
(* The article content extractor on its own: any page of up to MaxFrags    *)
(* fragments per list                                                      *)

InitExtract ==
    /\ part = "I" /\ start_q = 1 /\ end_arg = 1 /\ delay = 0 /\ end_q = 1
    /\ url_part = "I" /\ part_title = "" /\ part_subtitle = ""
    /\ pc = "extract"
    /\ f_open = TRUE
    /\ doc = << >>
    /\ q_num = 1 /\ num_articles = 1 /\ article_nums = {}
    /\ article_num = 1 /\ retry_count = 0 /\ article_retrieved = TRUE
    /\ slept = 0 /\ lastFetch = NoFetch
    /\ attempts = 0 /\ firstOK = 0
    /\ body = << >>
    /\ run = 1 /\ prevDoc = << >>
    /\ server = AnySite
    /\ page_in \in { Page(e, << >>, << >>) : e \in SeqsUpTo(Elems, MaxFrags) }

\* lines 316-357 on page_in; the secondary selector and the page text are
\* read only when the stage before them wrote nothing
Extract ==
    /\ pc = "extract"
    /\ \E p \in (IF Stage1(page_in.elems, ArticleTitle(page_in.elems), 1, << >>) = << >>
                 THEN SeqsUpTo(ParaTexts, MaxFrags) ELSE {<< >>}) :
       \E l \in (IF Stage2(p, 1, Stage1(page_in.elems, ArticleTitle(page_in.elems), 1, << >>)) = << >>
                 THEN SeqsUpTo(LineTexts, MaxFrags) ELSE {<< >>}) :
          LET page == Page(page_in.elems, p, l)
          IN  /\ page_in' = page
              /\ body' = ExtractBody(page)
              /\ doc' = Write(doc, ArticleBlock(q_num, article_num, page))
    /\ pc' = "extracted"
    /\ UNCHANGED << part, start_q, end_q, delay, url_part, part_title,
                    part_subtitle, f_open, q_num, num_articles, article_nums,
                    article_num, retry_count, article_retrieved, slept,
                    lastFetch, attempts, firstOK, server, run, prevDoc, end_arg >>

NextExtract == Extract

SpecExtract == InitExtract /\ [][NextExtract]_vars

----------------------------------------------------------------------------
(* Properties *)

InArticle == pc \in {"article", "get"}

HasLine(k, q, m) == \E i \in 1..Len(doc) : doc[i].k = k /\ doc[i].q = q /\ doc[i].m = m

Last(d) == d[Len(d)]

\* C1: for one article the retry loop issues exactly min(k, 7) GETs, k the
\* first attempt answered 200: after a 200 on attempt k there are exactly k
\* attempts and no further one; the loop ends without a 200 only after
\* exactly 7 attempts, with the article not retrieved.
C1_ExactAttempts ==
    InArticle =>
        /\ attempts <= 7
        /\ firstOK # 0 => attempts = firstOK /\ article_retrieved /\ pc = "article" /\ ~Retrying
        /\ firstOK = 0 /\ attempts < 7 => pc = "get" \/ Retrying
        /\ firstOK = 0 /\ attempts = 7 => pc = "article" /\ ~Retrying /\ ~article_retrieved

C1_Witness ==
    /\ pc = "article" /\ ~Retrying
    /\ attempts = 7 /\ firstOK = 0 /\ ~article_retrieved
    /\ lastFetch.outcome = "429"

\* C2: an article that exhausted its retries, and a question whose page was
\* unreachable, leave their placeholder line in the document and the run
\* goes on with the next article or question; a completed run has processed
\* every question of the range, whatever the fetches answered or raised.
C2_PlaceholderAndContinue ==
    /\ ( /\ lastFetch.kind = "article" /\ lastFetch.outcome \in Failures
         /\ lastFetch.n = max_retries
         /\ ~(pc = "article" /\ q_num = lastFetch.q /\ article_num = lastFetch.m
              /\ attempts = max_retries) )
       => /\ Last(doc) = Line("*Article", lastFetch.q, lastFetch.m, "")
          /\ \/ pc = "article" /\ q_num = lastFetch.q /\ article_num = lastFetch.m + 1
             \/ pc = "question" /\ q_num = lastFetch.q + 1
             \/ pc \in {"finish", "done"} /\ lastFetch.q = end_q
    /\ (lastFetch.kind = "question" /\ lastFetch.outcome \in Failures)
       => /\ Last(doc).q = lastFetch.q /\ Last(doc).m = 0
          /\ Last(doc).k = IF lastFetch.outcome = "exc" THEN "*QuestionError"
                           ELSE "*Question"
          /\ \/ pc = "question" /\ q_num = lastFetch.q + 1
             \/ pc \in {"finish", "done"} /\ lastFetch.q = end_q
    /\ pc = "done"
       => /\ q_num = end_q + 1
          /\ \A q \in start_q..end_q :
                HasLine("Question", q, 0) \/ HasLine("*Question", q, 0)
                \/ HasLine("*QuestionError", q, 0)

C2_Witness ==
    /\ pc = "done"
    /\ end_q = start_q + 1
    /\ HasLine("*Article", start_q, 1)
    /\ HasLine("*QuestionError", end_q, 0)

\* the position of a line's unit in the traversal: title and prologue,
\* then question q, then its articles 1, 2, ...
Before(a, b) == a.q < b.q \/ (a.q = b.q /\ a.m <= b.m)

IsPrefix(a, b) == Len(a) <= Len(b) /\ SubSeq(b, 1, Len(a)) = a

Ordered ==
    /\ \A i \in 1..Len(doc) : \A j \in i..Len(doc) : Before(doc[i], doc[j])
    /\ pc # "start" =>
          /\ Len(doc) >= 2
          /\ doc[1].k = "SUMMA THEOLOGIAE" /\ doc[2].k = "subtitle"
          /\ \A i \in 3..Len(doc) :
                /\ doc[i].q = 0 => doc[i].k \in {"PROLOGUE", "para"} /\ start_q = 1
                /\ doc[i].q # 0 =>
                      /\ doc[i].q \in start_q..end_q
                      /\ doc[i].q <= q_num
                      /\ doc[i].m >= 1 =>
                            /\ HasLine("Question", doc[i].q, 0)
                            /\ doc[i].q = q_num => doc[i].m <= article_num

\* C3: the document is, in every state, what the units processed so far
\* wrote, in traversal order: title and subtitle, the prologue, then each
\* question followed by its articles in ascending number; it only grows at
\* its end.
C3_OrderedAppendOnly == [](Ordered) /\ [][IsPrefix(doc, doc')]_vars

C3_Witness ==
    /\ pc = "done"
    /\ HasLine("PROLOGUE", 0, 0)
    /\ HasLine("Article", 1, 1) /\ HasLine("*Article", 1, 2)
    /\ HasLine("Article", 2, 1) /\ HasLine("Article", 2, 2)

\* C4 as stated: the tabled question counts for the four parts, and for an
\* unrecognized identifier every resolved value equal to Part I's.
C4_UnknownIsPartOne ==
    pc # "start" =>
        /\ end_arg = None /\ part = "I" => end_q = 119
        /\ end_arg = None /\ part = "II-I" => end_q = 114
        /\ end_arg = None /\ part = "II-II" => end_q = 189
        /\ end_arg = None /\ part = "III" => end_q = 90
        /\ part \notin ValidParts =>
              /\ end_arg = None => end_q = 119
              /\ url_part = "I"
              /\ part_title = "FIRST PART"
              /\ part_subtitle = "SACRED DOCTRINE"

\* C4 amended: the tabled question counts for the four parts; for an
\* unrecognized identifier the default last question is Part I's (119), the
\* URL segment is the identifier itself, the title is "PART <identifier>"
\* and the subtitle is empty.
C4_UnknownDefaults ==
    pc # "start" =>
        /\ end_arg = None /\ part = "I" => end_q = 119
        /\ end_arg = None /\ part = "II-I" => end_q = 114
        /\ end_arg = None /\ part = "II-II" => end_q = 189
        /\ end_arg = None /\ part = "III" => end_q = 90
        /\ part \notin ValidParts =>
              /\ end_arg = None => end_q = 119
              /\ url_part = part
              /\ part_title = "PART " \o part
              /\ part_subtitle = ""

C4_Witness ==
    pc = "done" /\ part = "IV" /\ end_arg = None /\ end_q = 119 /\ part_title = "PART IV"

ExceptionTable ==
    { << "I", 119, 2 >>, << "II-I", 114, 10 >>, << "II-II", 189, 10 >>, << "III", 90, 4 >> }

\* the articles of question q that left a header or a placeholder
Processed(q) ==
    { m \in 1..10 : HasLine("Article", q, m) \/ HasLine("*Article", q, m) }

\* C5: for a (part, question) pair of the exception table the pipeline
\* processes the tabled number of articles, whatever article numbers the
\* question page shows and whether or not the question ends the run.
C5_TableCount ==
    \A e \in ExceptionTable :
        part = e[1] =>
            /\ InArticle /\ q_num = e[2] => num_articles = e[3] /\ article_num <= e[3]
            /\ q_num > e[2] /\ HasLine("Question", e[2], 0)
               => Processed(e[2]) = 1..e[3]

C5_Witness ==
    /\ part = "III" /\ q_num = 91 /\ end_q = 91 /\ start_q = 90
    /\ server.nums = {1, 2} /\ server.qfail = 0
    /\ Processed(90) = 1..4

\* C6: with no table entry and no article number detected, the count is 10
\* for the last question of the part and 4 for every other question.
C6_DefaultByPartEnd ==
    InArticle /\ get_article_count(part, q_num) = None /\ article_nums = {}
    => num_articles = IF q_num = get_default_end_question(part) THEN 10 ELSE 4

\* C7 as stated: a failed GET on attempt n < 7, of a question page or of an
\* article page, leaves the run about to GET the same URL again.
C7_AllRetried ==
    lastFetch.outcome \in Failures /\ lastFetch.n < 7 =>
        /\ lastFetch.kind = "article" =>
              /\ InArticle /\ q_num = lastFetch.q /\ article_num = lastFetch.m
              /\ pc = "get" \/ Retrying
        /\ lastFetch.kind = "question" => pc = "question" /\ q_num = lastFetch.q

\* C7 amended: a failed GET of an article page on attempt n < 7 leaves the
\* run about to GET the same article URL again; a question page is fetched
\* once, and its failure moves the run on to the next question.
C7_ArticlesRetried ==
    /\ lastFetch.outcome \in Failures /\ lastFetch.n < 7 /\ lastFetch.kind = "article"
       => /\ InArticle /\ q_num = lastFetch.q /\ article_num = lastFetch.m
          /\ pc = "get" \/ Retrying
    /\ lastFetch.kind = "question" => lastFetch.n = 1
    /\ lastFetch.kind = "question" /\ lastFetch.outcome \in Failures
       => q_num = lastFetch.q + 1 /\ pc \in {"question", "finish", "done"}

C7_Witness ==
    /\ pc = "get" /\ lastFetch.kind = "article"
    /\ lastFetch.outcome = "exc" /\ lastFetch.n = 6

\* C8: a second run on the same output path, with the same arguments and
\* the same responses, ends with the same document as the first, whatever
\* backoff and jitter values either run drew.
C8_SameDocument == run = 2 /\ pc = "done" => doc = prevDoc

C8_Witness ==
    /\ run = 2 /\ pc = "done" /\ delay > 0
    /\ \E i \in 1..Len(doc) : doc[i].k = "*Article"
    /\ \E i \in 1..Len(doc) : doc[i].k = "Article"

\* C9 as stated: the sleep between a 429 and the next GET of the article is
\* 5 to 10 s, between another failure and the next GET 2 to 5 s.
C9_BackoffOnly ==
    pc = "get" =>
        /\ lastFetch.outcome = "429" => 5000 <= slept /\ slept <= 10000
        /\ lastFetch.outcome \in {"other", "exc"} => 2000 <= slept /\ slept <= 5000

\* C9 amended: the sleep between a 429 and the next GET of the article is
\* 6 to 13 s (the 5-10 s backoff and the 1-3 s pause before a repeated GET),
\* between another failure and the next GET 3 to 8 s (2-5 s and 1-3 s).
C9_BackoffAndPause ==
    pc = "get" =>
        /\ lastFetch.outcome \in Failures
        /\ lastFetch.outcome = "429" => 6000 <= slept /\ slept < 13000
        /\ lastFetch.outcome \in {"other", "exc"} => 3000 <= slept /\ slept < 8000

C9_Witness == pc = "get" /\ lastFetch.outcome = "429" /\ slept > 10000

BodyLines == SelectSeq(doc, LAMBDA x : x.k = "text")

Candidates(pg) ==
    { pg.elems[i].text : i \in 1..Len(pg.elems) } \cup Range(pg.paras) \cup Range(pg.lines)

\* C10: the extractor writes no body fragment shorter than 15 characters
\* and no fragment twice, in any stage; a page whose candidates are all
\* short yields an empty body.
C10_NoShortNoDuplicate ==
    pc = "extracted" =>
        /\ Len(BodyLines) = Len(body)
        /\ \A i \in 1..Len(body) :
              /\ body[i].len >= 15
              /\ BodyLines[i].t = body[i].id
              /\ body[i] \in Candidates(page_in)
              /\ \A j \in 1..Len(body) : i # j => BodyLines[i].t # BodyLines[j].t
        /\ (\A c \in Candidates(page_in) : c.len < 15) => body = << >>

C10_Witness ==
    /\ pc = "extracted"
    /\ Len(page_in.elems) = 2
    /\ page_in.elems[1] = El("p", Txt("p21", 21, FALSE))
    /\ page_in.elems[2] = El("p", Txt("p21", 21, FALSE))
    /\ body = << Txt("p21", 21, FALSE) >>

----------------------------------------------------------------------------
(* The run as a sequential program: it takes its next step whenever it has *)
(* one                                                                     *)

\* the runs without throttling between requests, end_q given
InitLive == Init /\ delay = 0 /\ end_arg # None

SpecLive == InitLive /\ [][Next]_vars /\ WF_vars(Next)

Count(k, q, m) == Cardinality({ i \in 1..Len(doc) : doc[i].k = k /\ doc[i].q = q /\ doc[i].m = m })

VisitedOnce ==
    /\ \A i \in 1..Len(doc) : doc[i].q # 0 =>
          Count(doc[i].k, doc[i].q, doc[i].m) = 1
             \/ doc[i].k \in {"para", "item", "text"}
    /\ \A q \in start_q..end_q : \A m \in 1..10 :
          ~(HasLine("Question", q, 0) /\ HasLine("*Question", q, 0))
          /\ ~(HasLine("Article", q, m) /\ HasLine("*Article", q, m))

Completed ==
    /\ pc = "done" /\ ~f_open
    /\ q_num = end_q + 1
    /\ \A q \in start_q..end_q :
          HasLine("Question", q, 0) \/ HasLine("*Question", q, 0)
          \/ HasLine("*QuestionError", q, 0)

\* C11: whatever the fetches answer, the run terminates: no article is
\* fetched more than 7 times, no question or article is written twice, and
\* the run reaches its completed state, every question of the range
\* visited and the output file closed.
C11_Terminates ==
    /\ [](attempts <= max_retries /\ (pc # "start" => VisitedOnce))
    /\ <>Completed

C11_Witness ==
    /\ Completed
    /\ end_q = start_q + 1
    /\ HasLine("*Article", start_q, 2)
    /\ HasLine("*Question", end_q, 0)

\* C12: a backoff wait occurs only between two attempts: when the retry
\* loop of an article has ended, nothing was slept since the last response,
\* and the article took at most (attempts - 1) backoff waits, one for each
\* increment of retry_count.
C12_WaitOnlyBetweenAttempts ==
    pc = "article" /\ ~Retrying /\ attempts >= 1 =>
        /\ slept = 0
        /\ retry_count <= attempts - 1

ExactlyOneMarker(q, m) ==
    /\ HasLine("Article", q, m) \/ HasLine("*Article", q, m)
    /\ ~(HasLine("Article", q, m) /\ HasLine("*Article", q, m))

\* C13: for a question fetched with 200, every article whose processing
\* has finished left exactly one of its two markers in the document, the
\* header or the placeholder, also when handling a 200 response raised.
C13_ExactlyOneMarker ==
    /\ InArticle => \A m \in 1..(article_num - 1) : ExactlyOneMarker(q_num, m)
    /\ pc \in {"question", "finish", "done"} /\ lastFetch.kind = "article"
       => \A m \in 1..num_articles : ExactlyOneMarker(lastFetch.q, m)

====
